---- MODULE Spec2Model ----
(***************************************************************************)
(* Model of extract_headings in                                            *)
(* src/extract_word_headings_with_chinese_comments.py: the loop that       *)
(* classifies the paragraphs of a document with three regular expressions  *)
(* and assembles the nested dictionary of headings.                        *)
(*                                                                         *)
(* A text is a sequence of one-character strings.  A dictionary is a       *)
(* function whose domain is its set of keys.                               *)
(***************************************************************************)
EXTENDS Integers, Sequences, FiniteSets, TLC

\* ------------------------------------------------------------------ bounds
\* Largest number of paragraphs of a document.
MaxParas == 4

\* Largest number of paragraphs of each document of two concurrent calls.
MaxPairParas == 3

\* Largest length of a paragraph text built from Alphabet.
MaxTextLen == 7

\* ------------------------------------------------------- characters, texts
\* Characters matched by \d.
Digits == {"1", "2"}

\* Characters matched by \s and removed by str.strip().
Whitespace == {" ", "\n"}

\* Python's None; no text equals it.
None == <<"None">>

\* Truth value of a text or None in a boolean context ("and current_h1").
Truthy(x) == x # None /\ x # <<>>

Max(S) == CHOOSE m \in S : \A n \in S : n <= m

Min(S) == CHOOSE m \in S : \A n \in S : m <= n

\* str.strip(): the text without its leading and trailing whitespace.
strip(text) ==
    LET keep == {k \in 1..Len(text) : text[k] \notin Whitespace}
    IN  IF keep = {} THEN <<>> ELSE SubSeq(text, Min(keep), Max(keep))

\* Length of the longest run of digits of text that starts at position p:
\* what a greedy \d+ consumes there (0: \d+ does not match at p).
DigitRun(text, p) ==
    Max({n \in 0..(Len(text) + 1 - p) :
            \A k \in p..(p + n - 1) : text[k] \in Digits})

\* PrefixEnd for patterns whose periods are not escaped: "." matches any
\* character but a newline.
RECURSIVE PrefixEndUnescaped(_, _)
PrefixEndUnescaped(text, depth) ==
    IF depth = 1
    THEN DigitRun(text, 1)
    ELSE LET e == PrefixEndUnescaped(text, depth - 1)
         IN  IF e = 0 \/ e + 1 > Len(text) THEN 0
             ELSE IF text[e + 1] = "\n" THEN 0
             ELSE LET n == DigitRun(text, e + 2)
                  IN  IF n = 0 THEN 0 ELSE e + 1 + n

\* Last position of the numeric prefix \d+(\.\d+){depth-1} matched at the
\* start of text, 0 when the prefix does not match.  Each \d+ is followed by
\* a character that is not a digit, so only the longest run can match.
RECURSIVE PrefixEnd(_, _)
PrefixEnd(text, depth) ==
    IF depth = 1
    THEN DigitRun(text, 1)
    ELSE LET e == PrefixEnd(text, depth - 1)
         IN  IF e = 0 \/ e + 1 > Len(text) THEN 0
             ELSE IF text[e + 1] # "." THEN 0
             ELSE LET n == DigitRun(text, e + 2)
                  IN  IF n = 0 THEN 0 ELSE e + 1 + n

\* Position where $ matches: the end of the text, or just before a final
\* newline.
LineEnd(text) ==
    IF Len(text) > 0 /\ text[Len(text)] = "\n" THEN Len(text) - 1 ELSE Len(text)

\* SpaceRuns with \s* in place of \s+: the whitespace may be missing.
SpaceRunsOptional(text, e) ==
    {w \in 0..(Len(text) - e) :
        /\ \A k \in (e + 1)..(e + w) : text[k] \in Whitespace
        /\ e + w < LineEnd(text)
        /\ \A k \in (e + w + 1)..LineEnd(text) : text[k] # "\n"}

\* The lengths w that \s+ can take after a prefix ending at e so that the
\* rest, (.+)$, still matches: w whitespace characters, then at least one
\* character, none of them a newline, up to LineEnd.
SpaceRuns(text, e) ==
    {w \in 1..(Len(text) - e) :
        /\ \A k \in (e + 1)..(e + w) : text[k] \in Whitespace
        /\ e + w < LineEnd(text)
        /\ \A k \in (e + w + 1)..LineEnd(text) : text[k] # "\n"}

\* The three patterns, by the number of levels of their numeric prefix:
\*   H1  ^\d+\s+(.+)$     H2  ^\d+\.\d+\s+(.+)$     H3  ^\d+\.\d+\.\d+\s+(.+)$
patterns == [H1 |-> 1, H2 |-> 2, H3 |-> 3]

\* re.match(patterns[name], text) is not None.
re_match(name, text) ==
    LET e == PrefixEnd(text, patterns[name])
    IN  e # 0 /\ SpaceRuns(text, e) # {}

\* group1 with a lazy \s+?: the group starts after the first whitespace.
group1Lazy(name, text) ==
    LET e == PrefixEnd(text, patterns[name])
        w == Min(SpaceRuns(text, e))
    IN  SubSeq(text, e + w + 1, LineEnd(text))

\* re.match(patterns[name], text).group(1), for a text that matches: \s+ is
\* greedy, the group is what follows the longest whitespace run.
group1(name, text) ==
    LET e == PrefixEnd(text, patterns[name])
        w == Max(SpaceRuns(text, e))
    IN  SubSeq(text, e + w + 1, LineEnd(text))

\* ------------------------------------------------------------ dictionaries
\* {}
EmptyDict == [k \in {} |-> {}]

\* d[k] = v
SetItem(d, k, v) == [x \in (DOMAIN d) \cup {k} |-> IF x = k THEN v ELSE d[x]]

\* ------------------------------------------------------ the body of the loop
\* The locals of extract_headings before the loop; exc is the exception that
\* ended the call, "" while there is none.
InitLocals ==
    [headings_dict |-> EmptyDict, current_h1 |-> None, current_h2 |-> None,
     exc |-> ""]

\* H1Branch with headings_dict.setdefault(current_h1, {}): an entry that
\* exists keeps its value.
H1BranchSetDefault(s, text) ==
    LET h1 == group1("H1", text)
        d  == s.headings_dict
    IN  [s EXCEPT !.current_h1 = h1,
                  !.headings_dict =
                      IF h1 \in DOMAIN d THEN d ELSE SetItem(d, h1, EmptyDict)]

\* H1Branch that also resets the level-2 label: current_h2 = None.
H1BranchResetH2(s, text) ==
    LET h1 == group1("H1", text)
    IN  [s EXCEPT !.current_h1 = h1, !.current_h2 = None,
                  !.headings_dict = SetItem(s.headings_dict, h1, EmptyDict)]

\* H1Branch with headings_dict = {current_h1: {}}: the dictionary is rebound.
H1BranchClear(s, text) ==
    LET h1 == group1("H1", text)
    IN  [s EXCEPT !.current_h1 = h1,
                  !.headings_dict = SetItem(EmptyDict, h1, EmptyDict)]

\* current_h1 = group(1); headings_dict[current_h1] = {}
H1Branch(s, text) ==
    LET h1 == group1("H1", text)
    IN  [s EXCEPT !.current_h1 = h1,
                  !.headings_dict = SetItem(s.headings_dict, h1, EmptyDict)]

\* H2Branch that stores the entry and does not assign current_h2.
H2BranchNoAssign(s, text) ==
    LET h2 == group1("H2", text)
        d  == s.headings_dict
    IN  IF s.current_h1 \notin DOMAIN d
        THEN [s EXCEPT !.exc = "KeyError"]
        ELSE [s EXCEPT !.headings_dict =
                 SetItem(d, s.current_h1, SetItem(d[s.current_h1], h2, EmptyDict))]

\* H2Branch with headings_dict[current_h1].setdefault(current_h2, {}): an
\* entry that exists keeps its value.
H2BranchSetDefault(s, text) ==
    LET h2 == group1("H2", text)
        t  == [s EXCEPT !.current_h2 = h2]
        d  == s.headings_dict
    IN  IF s.current_h1 \notin DOMAIN d
        THEN [t EXCEPT !.exc = "KeyError"]
        ELSE IF h2 \in DOMAIN d[s.current_h1] THEN t
        ELSE [t EXCEPT !.headings_dict =
                 SetItem(d, s.current_h1, SetItem(d[s.current_h1], h2, EmptyDict))]

\* H2Branch with headings_dict[current_h1] = {current_h2: {}}: the other
\* level-2 entries of the level-1 entry are lost.
H2BranchReplace(s, text) ==
    LET h2 == group1("H2", text)
        t  == [s EXCEPT !.current_h2 = h2]
        d  == s.headings_dict
    IN  IF s.current_h1 \notin DOMAIN d
        THEN [t EXCEPT !.exc = "KeyError"]
        ELSE [t EXCEPT !.headings_dict =
                 SetItem(d, s.current_h1, SetItem(EmptyDict, h2, EmptyDict))]

\* current_h2 = group(1); headings_dict[current_h1][current_h2] = {}
\* The subscript headings_dict[current_h1] raises KeyError on a missing key.
H2Branch(s, text) ==
    LET h2 == group1("H2", text)
        t  == [s EXCEPT !.current_h2 = h2]
        d  == s.headings_dict
    IN  IF s.current_h1 \notin DOMAIN d
        THEN [t EXCEPT !.exc = "KeyError"]
        ELSE [t EXCEPT !.headings_dict =
                 SetItem(d, s.current_h1, SetItem(d[s.current_h1], h2, EmptyDict))]

\* H3Branch with headings_dict[current_h1][current_h3] = {}: the entry is
\* stored beside the level-2 entries.
H3BranchBeside(s, text) ==
    LET h3 == group1("H3", text)
        d  == s.headings_dict
    IN  IF s.current_h1 \notin DOMAIN d
        THEN [s EXCEPT !.exc = "KeyError"]
        ELSE [s EXCEPT !.headings_dict =
                 SetItem(d, s.current_h1, SetItem(d[s.current_h1], h3, EmptyDict))]

\* H3Branch that stores {current_h3: {}} in place of {}: a fourth level.
H3BranchDeeper(s, text) ==
    LET h3 == group1("H3", text)
        d  == s.headings_dict
    IN  IF s.current_h1 \notin DOMAIN d
        THEN [s EXCEPT !.exc = "KeyError"]
        ELSE IF s.current_h2 \notin DOMAIN d[s.current_h1]
        THEN [s EXCEPT !.exc = "KeyError"]
        ELSE [s EXCEPT !.headings_dict =
                 SetItem(d, s.current_h1,
                    SetItem(d[s.current_h1], s.current_h2,
                       SetItem(d[s.current_h1][s.current_h2], h3,
                               SetItem(EmptyDict, h3, EmptyDict))))]

\* current_h3 = group(1); headings_dict[current_h1][current_h2][current_h3] = {}
\* Both subscripts raise KeyError on a missing key.
H3Branch(s, text) ==
    LET h3 == group1("H3", text)
        d  == s.headings_dict
    IN  IF s.current_h1 \notin DOMAIN d
        THEN [s EXCEPT !.exc = "KeyError"]
        ELSE IF s.current_h2 \notin DOMAIN d[s.current_h1]
        THEN [s EXCEPT !.exc = "KeyError"]
        ELSE [s EXCEPT !.headings_dict =
                 SetItem(d, s.current_h1,
                    SetItem(d[s.current_h1], s.current_h2,
                       SetItem(d[s.current_h1][s.current_h2], h3, EmptyDict)))]

\* LoopBody whose level-2 test lacks "and current_h1".
LoopBodyNoH1Test(s, raw) ==
    LET text == strip(raw)
    IN  IF text = <<>> THEN s
        ELSE IF re_match("H1", text) THEN H1Branch(s, text)
        ELSE IF re_match("H2", text) THEN H2Branch(s, text)
        ELSE IF re_match("H3", text) /\ Truthy(s.current_h1) /\ Truthy(s.current_h2)
             THEN H3Branch(s, text)
        ELSE s

\* LoopBody whose level-3 test lacks "and current_h2".
LoopBodyNoH2Test(s, raw) ==
    LET text == strip(raw)
    IN  IF text = <<>> THEN s
        ELSE IF re_match("H1", text) THEN H1Branch(s, text)
        ELSE IF re_match("H2", text) /\ Truthy(s.current_h1) THEN H2Branch(s, text)
        ELSE IF re_match("H3", text) /\ Truthy(s.current_h1) THEN H3Branch(s, text)
        ELSE s

\* LoopBody in which a paragraph that matches nothing ends the level-2
\* section: current_h2 = None.
LoopBodyResetOnOther(s, raw) ==
    LET text == strip(raw)
    IN  IF text = <<>> THEN s
        ELSE IF re_match("H1", text) THEN H1Branch(s, text)
        ELSE IF re_match("H2", text) /\ Truthy(s.current_h1) THEN H2Branch(s, text)
        ELSE IF re_match("H3", text) /\ Truthy(s.current_h1) /\ Truthy(s.current_h2)
             THEN H3Branch(s, text)
        ELSE [s EXCEPT !.current_h2 = None]

\* One iteration of the loop on the paragraph whose text is raw.
LoopBody(s, raw) ==
    LET text == strip(raw)
    IN  IF text = <<>> THEN s
        ELSE IF re_match("H1", text) THEN H1Branch(s, text)
        ELSE IF re_match("H2", text) /\ Truthy(s.current_h1) THEN H2Branch(s, text)
        ELSE IF re_match("H3", text) /\ Truthy(s.current_h1) /\ Truthy(s.current_h2)
             THEN H3Branch(s, text)
        ELSE s

\* The locals after the first n paragraphs of doc, the call running alone.
RECURSIVE Extract(_, _)
Extract(doc, n) ==
    IF n = 0 THEN InitLocals
    ELSE LET s == Extract(doc, n - 1)
         IN  IF s.exc # "" THEN s ELSE LoopBody(s, doc[n])

\* ------------------------------------------------------------ the documents
Labels == {<<"a">>, <<"b">>, <<"c">>}

\* Heading paragraphs as the document holds them, before strip():
\* "1 x", "1.2  x" and " 2.1.1 x\n" for a label x.
H1Text(l) == <<"1", " ">> \o l

H2Text(l) == <<"1", ".", "2", " ", " ">> \o l

H3Text(l) == <<" ", "2", ".", "1", ".", "1", " ">> \o l \o <<"\n">>

H1Texts == {H1Text(l) : l \in Labels}

H2Texts == {H2Text(l) : l \in Labels}

H3Texts == {H3Text(l) : l \in Labels}

\* Paragraphs that are no heading: empty, whitespace only, and a numbered
\* line, "1.a", whose number is followed by no whitespace.
OtherTexts == {<<>>, <<" ", "\n">>, <<"1", ".", "a">>}

ParagraphTexts == H1Texts \cup H2Texts \cup H3Texts \cup OtherTexts

\* ------------------------------------------------------------- the machine
\* paragraphs is the part of document.paragraphs the loop has iterated over,
\* in order; the document is any sequence of at most MaxParas texts.
VARIABLES paragraphs, headings_dict, current_h1, current_h2, pc

vars == <<paragraphs, headings_dict, current_h1, current_h2, pc>>

Locals == [headings_dict |-> headings_dict, current_h1 |-> current_h1,
           current_h2 |-> current_h2, exc |-> ""]

\* The dictionary is empty and both current labels are None.
Init ==
    /\ paragraphs = <<>>
    /\ headings_dict = InitLocals.headings_dict
    /\ current_h1 = InitLocals.current_h1
    /\ current_h2 = InitLocals.current_h2
    /\ pc = "loop"

\* One iteration of "for paragraph in document.paragraphs" on the next
\* paragraph of the document; an exception raised in it ends the call.
Iterate ==
    /\ pc = "loop"
    /\ Len(paragraphs) < MaxParas
    /\ \E raw \in ParagraphTexts :
          \E s \in {LoopBody(Locals, raw)} :
              /\ paragraphs' = Append(paragraphs, raw)
              /\ headings_dict' = s.headings_dict
              /\ current_h1' = s.current_h1
              /\ current_h2' = s.current_h2
              /\ pc' = IF s.exc = "" THEN "loop" ELSE s.exc

\* The document has no further paragraph: return headings_dict.
Return ==
    /\ pc = "loop"
    /\ pc' = "return"
    /\ UNCHANGED <<paragraphs, headings_dict, current_h1, current_h2>>

Next == Iterate \/ Return

Spec == Init /\ [][Next]_vars

\* ------------------------------------------------------- two invocations
\* Two calls of extract_headings on independent documents, their loop
\* iterations interleaved in any order.  headings_dict, current_h1 and
\* current_h2 are local variables of the function, so each call has its own:
\* in SpecPair every variable is a function from the call to that call's
\* value of it.
Calls == {1, 2}

PairTexts ==
    {H1Text(<<"a">>), H1Text(<<"b">>), H2Text(<<"b">>), H3Text(<<"c">>)}

\* The locals of call i.
LocalsOf(i) ==
    [headings_dict |-> headings_dict[i], current_h1 |-> current_h1[i],
     current_h2 |-> current_h2[i], exc |-> ""]

\* StoreLocal on a variable held at module level: one value for all calls.
StoreGlobal(f, i, v) == [j \in DOMAIN f |-> v]

\* Assignment of v to a local variable of call i.
StoreLocal(f, i, v) == [f EXCEPT ![i] = v]

InitPair ==
    /\ paragraphs = [i \in Calls |-> <<>>]
    /\ headings_dict = [i \in Calls |-> InitLocals.headings_dict]
    /\ current_h1 = [i \in Calls |-> InitLocals.current_h1]
    /\ current_h2 = [i \in Calls |-> InitLocals.current_h2]
    /\ pc = [i \in Calls |-> "loop"]

\* One iteration of the loop of call i.
IteratePair(i) ==
    /\ pc[i] = "loop"
    /\ Len(paragraphs[i]) < MaxPairParas
    /\ \E raw \in PairTexts :
          \E s \in {LoopBody(LocalsOf(i), raw)} :
              /\ paragraphs' = [paragraphs EXCEPT ![i] = Append(@, raw)]
              /\ headings_dict' = StoreLocal(headings_dict, i, s.headings_dict)
              /\ current_h1' = StoreLocal(current_h1, i, s.current_h1)
              /\ current_h2' = StoreLocal(current_h2, i, s.current_h2)
              /\ pc' = [pc EXCEPT ![i] = IF s.exc = "" THEN "loop" ELSE s.exc]

\* Call i returns its headings_dict.
ReturnPair(i) ==
    /\ pc[i] = "loop"
    /\ pc' = [pc EXCEPT ![i] = "return"]
    /\ UNCHANGED <<paragraphs, headings_dict, current_h1, current_h2>>

NextPair == \E i \in Calls : IteratePair(i) \/ ReturnPair(i)

SpecPair == InitPair /\ [][NextPair]_vars

\* ------------------------------------------------------ any paragraph text
\* The loop on a paragraph whose text is any sequence of at most MaxTextLen
\* characters of Alphabet (a digit, the period, a space, a letter), processed
\* after the headings "1 b" and "1.2  b", so that both current labels are set
\* and each of the three branches stores what it matches.
Alphabet == {"1", ".", " ", "a"}

Texts == UNION {[1..n -> Alphabet] : n \in 0..MaxTextLen}

TextsContext == <<H1Text(<<"b">>), H2Text(<<"b">>)>>

InitTexts ==
    /\ paragraphs = TextsContext
    /\ \E s \in {Extract(TextsContext, Len(TextsContext))} :
          /\ headings_dict = s.headings_dict
          /\ current_h1 = s.current_h1
          /\ current_h2 = s.current_h2
    /\ pc = "loop"

\* One iteration of the loop on a paragraph of any text.
IterateText ==
    /\ pc = "loop"
    /\ Len(paragraphs) = Len(TextsContext)
    /\ \E raw \in Texts :
          \E s \in {LoopBody(Locals, raw)} :
              /\ paragraphs' = Append(paragraphs, raw)
              /\ headings_dict' = s.headings_dict
              /\ current_h1' = s.current_h1
              /\ current_h2' = s.current_h2
              /\ pc' = IF s.exc = "" THEN "loop" ELSE s.exc

NextTexts == IterateText \/ Return

SpecTexts == InitTexts /\ [][NextTexts]_vars

\* ---------------------------------------------------------------- history
\* What the paragraphs iterated over say about the document, by the kind of
\* text each paragraph was drawn from and not by the patterns.

HeadingTexts == H1Texts \cup H2Texts \cup H3Texts

\* The label a heading paragraph was built from.
LabelOf(raw) == CHOOSE l \in Labels : raw \in {H1Text(l), H2Text(l), H3Text(l)}

\* Position of the last paragraph of kind S among the first n of doc, 0 if none.
LastIdx(S, doc, n) == Max({0} \cup {k \in 1..n : doc[k] \in S})

\* d with the key k bound to {}.
WithKey(d, k) == [x \in (DOMAIN d) \cup {k} |-> IF x = k THEN EmptyDict ELSE d[x]]

\* A step of the loop, and the paragraph it processes.
Stepped == pc = "loop" /\ paragraphs' # paragraphs

Cur == paragraphs'[Len(paragraphs')]

\* Labels of the most recently seen level-1 and level-2 headings before Cur.
SeenH1 == LabelOf(paragraphs[LastIdx(H1Texts, paragraphs, Len(paragraphs))])

SeenH2 == LabelOf(paragraphs[LastIdx(H2Texts, paragraphs, Len(paragraphs))])

NoH1Seen == LastIdx(H1Texts, paragraphs, Len(paragraphs)) = 0

NoH2Seen == LastIdx(H2Texts, paragraphs, Len(paragraphs)) = 0

\* ------------------------------------------------------------------ claims

\* C1: the loop processes every paragraph of every document and returns a
\* mapping without raising: no reachable state has a pending exception.
C1_NeverRaises == pc # "KeyError"

\* C2: a step on a level-3 heading that changes the tree adds exactly the
\* heading's label, bound to {}, under the entry of the most recently seen
\* level-1 heading and in it under the entry of the most recently seen
\* level-2 heading; nothing else in the tree changes.
C2_H3UnderLatestPair ==
    [][(Stepped /\ Cur \in H3Texts /\ headings_dict' # headings_dict) =>
          /\ ~NoH1Seen /\ ~NoH2Seen
          /\ SeenH1 \in DOMAIN headings_dict
          /\ SeenH2 \in DOMAIN headings_dict[SeenH1]
          /\ headings_dict' =
               [headings_dict EXCEPT ![SeenH1] =
                   [@ EXCEPT ![SeenH2] = WithKey(@, LabelOf(Cur))]]]_vars

\* C2 witness: a level-3 heading has just been stored under the latest
\* level-1/level-2 pair, beside another top-level entry.
C2_Witness ==
    /\ pc = "loop" /\ Len(paragraphs) = 4
    /\ paragraphs[4] \in H3Texts /\ paragraphs[3] \in H2Texts
    /\ paragraphs[2] \in H1Texts /\ paragraphs[1] \in H1Texts
    /\ Cardinality(DOMAIN headings_dict) = 2
    /\ LabelOf(paragraphs[4]) \in
          DOMAIN headings_dict[LabelOf(paragraphs[2])][LabelOf(paragraphs[3])]

\* C3: a step on a level-2 heading that changes the tree or the current
\* level-2 label adds the heading's label, bound to {}, under the entry of the
\* most recently seen level-1 heading and under no other entry, and the
\* current level-2 label becomes the heading's label.
C3_H2UnderLatestH1 ==
    [][(Stepped /\ Cur \in H2Texts
           /\ (headings_dict' # headings_dict \/ current_h2' # current_h2)) =>
          /\ ~NoH1Seen
          /\ SeenH1 \in DOMAIN headings_dict
          /\ headings_dict' =
               [headings_dict EXCEPT ![SeenH1] = WithKey(@, LabelOf(Cur))]
          /\ current_h2' = LabelOf(Cur)]_vars

\* C3 witness: a level-2 heading has just been stored under the second of
\* two level-1 entries and is the current level-2 label.
C3_Witness ==
    /\ pc = "loop" /\ Len(paragraphs) = 3
    /\ paragraphs[3] \in H2Texts
    /\ paragraphs[2] \in H1Texts /\ paragraphs[1] \in H1Texts
    /\ paragraphs[1] # paragraphs[2]
    /\ current_h2 = LabelOf(paragraphs[3])
    /\ DOMAIN headings_dict[LabelOf(paragraphs[2])] = {LabelOf(paragraphs[3])}
    /\ headings_dict[LabelOf(paragraphs[1])] = EmptyDict

\* C4: while no level-1 heading has been seen, the tree is empty, both
\* current labels are unset and nothing was raised, whatever level-2 and
\* level-3 headings were processed; such a document returns {}.
C4_OrphansDropped ==
    NoH1Seen =>
        /\ headings_dict = EmptyDict
        /\ current_h1 = None /\ current_h2 = None
        /\ pc \in {"loop", "return"}

\* C4 witness: a document of a level-2 and a level-3 heading and nothing of
\* level 1 has returned {}.
C4_Witness ==
    /\ pc = "return" /\ NoH1Seen
    /\ \E i, j \in 1..Len(paragraphs) :
          i < j /\ paragraphs[i] \in H2Texts /\ paragraphs[j] \in H3Texts
    /\ headings_dict = EmptyDict

\* No level-2 heading was accepted: none follows a level-1 heading.
NoH2Accepted ==
    \A j, k \in 1..Len(paragraphs) :
        ~(j < k /\ paragraphs[j] \in H1Texts /\ paragraphs[k] \in H2Texts)

\* C5: a step on a level-3 heading, taken when a level-1 heading has been
\* seen and no level-2 heading has been accepted, changes neither the tree
\* nor the current labels, the current level-2 label is unset, and nothing is
\* raised.
C5_H3WithoutH2Dropped ==
    [][(Stepped /\ Cur \in H3Texts /\ ~NoH1Seen /\ NoH2Accepted) =>
          /\ UNCHANGED <<headings_dict, current_h1, current_h2>>
          /\ Truthy(current_h1) /\ current_h2 = None
          /\ pc' = "loop"]_vars

\* C5 witness: "1 a" then a level-3 heading gave {a: {}}.
C5_Witness ==
    /\ pc = "return" /\ Len(paragraphs) = 2
    /\ paragraphs[1] \in H1Texts /\ paragraphs[2] \in H3Texts
    /\ headings_dict = (LabelOf(paragraphs[1]) :> EmptyDict)
    /\ current_h2 = None

\* C6: a step on a level-1 heading whose label is already a top-level key
\* leaves that key bound to {}: the level-2 and level-3 entries stored under
\* it are gone, whatever was processed since the key was first stored.
C6_RepeatedH1Reset ==
    [][(Stepped /\ Cur \in H1Texts /\ LabelOf(Cur) \in DOMAIN headings_dict) =>
          /\ pc' = "loop"
          /\ LabelOf(Cur) \in DOMAIN headings_dict'
          /\ headings_dict'[LabelOf(Cur)] = EmptyDict]_vars

\* C6 witness: "1 x", a level-2 heading, a level-3 heading, then "1 x" again:
\* x is bound to {}.
C6_Witness ==
    /\ pc = "loop" /\ Len(paragraphs) = 4
    /\ paragraphs[1] \in H1Texts /\ paragraphs[2] \in H2Texts
    /\ paragraphs[3] \in H3Texts /\ paragraphs[4] = paragraphs[1]
    /\ headings_dict = (LabelOf(paragraphs[1]) :> EmptyDict)

\* The heading paragraphs of doc, in order.
IsHeadingText(raw) == raw \in HeadingTexts

HeadingsOnly(doc) == SelectSeq(doc, IsHeadingText)

\* C7: the tree, the current labels and a raised exception are, after any
\* paragraphs, what the loop gives on the heading paragraphs among them alone:
\* blank, whitespace-only and non-matching paragraphs change nothing, wherever
\* and however many they are.
C7_OtherParagraphsInert ==
    LET core == HeadingsOnly(paragraphs)
    IN  Extract(core, Len(core)) =
            [headings_dict |-> headings_dict, current_h1 |-> current_h1,
             current_h2 |-> current_h2,
             exc |-> IF pc = "KeyError" THEN "KeyError" ELSE ""]

\* C7 witness: a document with a paragraph that is no heading and not empty
\* right after its level-2 heading has returned a tree that holds its
\* level-3 entry.
C7_Witness ==
    /\ pc = "return" /\ Len(paragraphs) >= 4
    /\ \E i, j, k \in 1..Len(paragraphs) :
          /\ i < j /\ j < k
          /\ paragraphs[i] \in H1Texts /\ paragraphs[j] \in H2Texts
          /\ paragraphs[k] \in H3Texts
          /\ paragraphs[j + 1] \in OtherTexts \ {<<>>}
          /\ headings_dict[LabelOf(paragraphs[i])][LabelOf(paragraphs[j])]
                = (LabelOf(paragraphs[k]) :> EmptyDict)

\* C8: a document none of whose paragraphs is a heading returns {}.
C8_NoHeadingsEmpty ==
    (\A k \in 1..Len(paragraphs) : paragraphs[k] \in OtherTexts) =>
        /\ pc # "KeyError"
        /\ headings_dict = EmptyDict

\* C8 witness: a document of every kind of paragraph that is no heading has
\* returned {}.
C8_Witness ==
    /\ pc = "return"
    /\ {paragraphs[k] : k \in 1..Len(paragraphs)} = OtherTexts
    /\ headings_dict = EmptyDict

\* Positions of the paragraphs of kind S in doc.
Idx(S, doc) == {k \in 1..Len(doc) : doc[k] \in S}

\* Well nested: every level-2 heading follows a level-1 heading, every
\* level-3 heading follows a level-2 heading that follows the last level-1
\* heading before it, and no two headings have the same label.
WellNested(doc) ==
    /\ \A k \in Idx(H2Texts, doc) : LastIdx(H1Texts, doc, k) > 0
    /\ \A k \in Idx(H3Texts, doc) :
          /\ LastIdx(H1Texts, doc, k) > 0
          /\ LastIdx(H2Texts, doc, k) > LastIdx(H1Texts, doc, k)
    /\ \A i, j \in Idx(HeadingTexts, doc) :
          i # j => LabelOf(doc[i]) # LabelOf(doc[j])

\* The reference tree: each level-2 label under the nearest level-1 label
\* before it, each level-3 label under the nearest level-2 label before it.
RefTree(doc) ==
    [l1 \in {LabelOf(doc[k]) : k \in Idx(H1Texts, doc)} |->
      [l2 \in {LabelOf(doc[k]) : k \in
                 {j \in Idx(H2Texts, doc) :
                     LabelOf(doc[LastIdx(H1Texts, doc, j)]) = l1}} |->
        [l3 \in {LabelOf(doc[k]) : k \in
                   {j \in Idx(H3Texts, doc) :
                       LabelOf(doc[LastIdx(H2Texts, doc, j)]) = l2}} |->
          EmptyDict]]]

\* C9: after a well-nested sequence of paragraphs nothing was raised and the
\* tree is the reference tree of the sequence; level-1 a, level-2 b, level-3 c
\* give {a: {b: {c: {}}}}.
C9_WellNestedTree ==
    WellNested(paragraphs) =>
        /\ pc # "KeyError"
        /\ headings_dict = RefTree(paragraphs)

\* C9 witness: "1 a", "1.2  b", " 2.1.1 c\n" returned {a: {b: {c: {}}}}.
C9_Witness ==
    /\ pc = "return"
    /\ paragraphs = <<H1Text(<<"a">>), H2Text(<<"b">>), H3Text(<<"c">>)>>
    /\ headings_dict = (<<"a">> :> (<<"b">> :> (<<"c">> :> EmptyDict)))

\* C10: a step on a level-3 heading, taken when the last level-1 heading came
\* after the last level-2 heading and the current level-2 label is still set,
\* raises nothing and stores the heading's label under the current level-1
\* entry beneath the carried-over level-2 label.
C10_H3UnderCarriedH2 ==
    [][(/\ Stepped /\ Cur \in H3Texts
        /\ LastIdx(H1Texts, paragraphs, Len(paragraphs))
              > LastIdx(H2Texts, paragraphs, Len(paragraphs))
        /\ Truthy(current_h2)) =>
          /\ pc' = "loop"
          /\ current_h1 \in DOMAIN headings_dict'
          /\ current_h2 \in DOMAIN headings_dict'[current_h1]
          /\ LabelOf(Cur) \in DOMAIN headings_dict'[current_h1][current_h2]]_vars

\* C11: with two calls interleaved in any order, the tree, the current labels
\* and a raised exception of each call are those of the loop run alone on the
\* paragraphs of that call, and two calls that returned on the same paragraphs
\* returned equal mappings.
C11_CallsIndependent ==
    /\ \A i \in Calls :
          Extract(paragraphs[i], Len(paragraphs[i])) =
              [headings_dict |-> headings_dict[i], current_h1 |-> current_h1[i],
               current_h2 |-> current_h2[i],
               exc |-> IF pc[i] = "KeyError" THEN "KeyError" ELSE ""]
    /\ \A i, j \in Calls :
          (pc[i] = "return" /\ pc[j] = "return" /\ paragraphs[i] = paragraphs[j])
              => headings_dict[i] = headings_dict[j]

\* C11 witness: both calls returned, one {a: {b: {c: {}}}} and the other
\* {b: {b: {c: {}}}}, each the tree of its own document.
C11_Witness ==
    /\ pc = [i \in Calls |-> "return"]
    /\ paragraphs[1] = <<H1Text(<<"a">>), H2Text(<<"b">>), H3Text(<<"c">>)>>
    /\ paragraphs[2] = <<H1Text(<<"b">>), H2Text(<<"b">>), H3Text(<<"c">>)>>
    /\ headings_dict[1] = (<<"a">> :> (<<"b">> :> (<<"c">> :> EmptyDict)))
    /\ headings_dict[2] = (<<"b">> :> (<<"b">> :> (<<"c">> :> EmptyDict)))

\* C12: in every state the tree has three levels of keys at most: every key
\* of the tree, of a top-level value and of a second-level value is a
\* non-empty label, and every third-level value is {}.
C12_ThreeLevels ==
    \A k1 \in DOMAIN headings_dict :
        /\ k1 \in Labels /\ Len(k1) > 0
        /\ \A k2 \in DOMAIN headings_dict[k1] :
              /\ k2 \in Labels /\ Len(k2) > 0
              /\ \A k3 \in DOMAIN headings_dict[k1][k2] :
                    /\ k3 \in Labels /\ Len(k3) > 0
                    /\ headings_dict[k1][k2][k3] = EmptyDict

\* C12 witness: a returned tree with one level-1 entry, one level-2 entry and
\* two level-3 entries.
C12_Witness ==
    /\ pc = "return" /\ Len(paragraphs) = 4
    /\ paragraphs[1] \in H1Texts /\ paragraphs[2] \in H2Texts
    /\ paragraphs[3] \in H3Texts /\ paragraphs[4] \in H3Texts
    /\ Cardinality(DOMAIN
          headings_dict[LabelOf(paragraphs[1])][LabelOf(paragraphs[2])]) = 2

\* C13: a step on a level-1 heading raises nothing, makes the heading's label
\* the current level-1 label, binds it to {} in the tree and leaves the
\* current level-2 label as it was.
C13_H1KeepsH2 ==
    [][(Stepped /\ Cur \in H1Texts) =>
          /\ pc' = "loop"
          /\ current_h1' = LabelOf(Cur)
          /\ LabelOf(Cur) \in DOMAIN headings_dict'
          /\ headings_dict'[LabelOf(Cur)] = EmptyDict
          /\ current_h2' = current_h2]_vars

\* C13 witness: after a level-1, a level-2 and another level-1 heading the
\* current level-2 label is still that of the first section, under which the
\* new level-1 entry has no such key.
C13_Witness ==
    /\ pc = "loop" /\ Len(paragraphs) = 3
    /\ paragraphs[1] \in H1Texts /\ paragraphs[2] \in H2Texts
    /\ paragraphs[3] \in H1Texts /\ paragraphs[3] # paragraphs[1]
    /\ current_h1 = LabelOf(paragraphs[3])
    /\ current_h2 = LabelOf(paragraphs[2])
    /\ headings_dict[current_h1] = EmptyDict

\* C14: a step on a level-2 heading whose label is already a key under the
\* entry of the current level-1 heading raises nothing and leaves that key
\* bound to {}: the level-3 entries stored under it are gone.
C14_RepeatedH2Reset ==
    [][(/\ Stepped /\ Cur \in H2Texts /\ ~NoH1Seen
        /\ SeenH1 \in DOMAIN headings_dict
        /\ LabelOf(Cur) \in DOMAIN headings_dict[SeenH1]) =>
          /\ pc' = "loop"
          /\ SeenH1 \in DOMAIN headings_dict'
          /\ LabelOf(Cur) \in DOMAIN headings_dict'[SeenH1]
          /\ headings_dict'[SeenH1][LabelOf(Cur)] = EmptyDict]_vars

\* C14 witness: a level-1, a level-2, a level-3 heading and the same level-2
\* heading again: the level-2 entry is {}.
C14_Witness ==
    /\ pc = "loop" /\ Len(paragraphs) = 4
    /\ paragraphs[1] \in H1Texts /\ paragraphs[2] \in H2Texts
    /\ paragraphs[3] \in H3Texts /\ paragraphs[4] = paragraphs[2]
    /\ headings_dict =
          (LabelOf(paragraphs[1]) :> (LabelOf(paragraphs[2]) :> EmptyDict))

C17_TopKeysAreH1Labels ==
    /\ DOMAIN headings_dict =
          {LabelOf(paragraphs[k]) : k \in Idx(H1Texts, paragraphs)}
    /\ current_h1 # None => current_h1 \in DOMAIN headings_dict

\* C17 witness: after two level-1 headings with a level-2 and a level-3
\* heading between them the tree has both labels as keys.
C17_Witness ==
    /\ pc = "loop" /\ Len(paragraphs) = 4
    /\ paragraphs[1] \in H1Texts /\ paragraphs[2] \in H2Texts
    /\ paragraphs[3] \in H3Texts /\ paragraphs[4] \in H1Texts
    /\ paragraphs[4] # paragraphs[1]
    /\ DOMAIN headings_dict = {LabelOf(paragraphs[1]), LabelOf(paragraphs[4])}
    /\ current_h1 = LabelOf(paragraphs[4])

\* A level-2 heading was accepted since the last level-1 heading.
H2SinceH1 ==
    /\ ~NoH1Seen
    /\ LastIdx(H2Texts, paragraphs, Len(paragraphs))
          > LastIdx(H1Texts, paragraphs, Len(paragraphs))

\* C18: when a level-2 heading was accepted since the last level-1 heading,
\* the current level-2 label is a key under the entry of the current level-1
\* label, and a step on a level-3 heading raises nothing and binds the
\* heading's label to {} under the two.
C18_H3AfterH2Stored ==
    [][(pc = "loop" /\ H2SinceH1) =>
          /\ current_h1 \in DOMAIN headings_dict
          /\ current_h2 \in DOMAIN headings_dict[current_h1]
          /\ (Stepped /\ Cur \in H3Texts) =>
                /\ pc' = "loop"
                /\ current_h1 \in DOMAIN headings_dict'
                /\ current_h2 \in DOMAIN headings_dict'[current_h1]
                /\ LabelOf(Cur) \in DOMAIN headings_dict'[current_h1][current_h2]
                /\ headings_dict'[current_h1][current_h2][LabelOf(Cur)] = EmptyDict]_vars

\* C18 witness: a level-3 heading right after a level-1 and a level-2 heading
\* is the one entry under the pair.
C18_Witness ==
    /\ pc = "loop" /\ Len(paragraphs) = 3
    /\ paragraphs[1] \in H1Texts /\ paragraphs[2] \in H2Texts
    /\ paragraphs[3] \in H3Texts
    /\ current_h1 = LabelOf(paragraphs[1]) /\ current_h2 = LabelOf(paragraphs[2])
    /\ headings_dict[current_h1][current_h2] = (LabelOf(paragraphs[3]) :> EmptyDict)

\* The loop body with the three patterns tested in the given order, each with
\* the test of the current labels it has in the source.
RECURSIVE TestInOrder(_, _, _)
TestInOrder(s, text, order) ==
    IF order = <<>> THEN s
    ELSE IF Head(order) = "H1" /\ re_match("H1", text)
         THEN H1Branch(s, text)
    ELSE IF Head(order) = "H2" /\ re_match("H2", text) /\ Truthy(s.current_h1)
         THEN H2Branch(s, text)
    ELSE IF /\ Head(order) = "H3" /\ re_match("H3", text)
            /\ Truthy(s.current_h1) /\ Truthy(s.current_h2)
         THEN H3Branch(s, text)
    ELSE TestInOrder(s, text, Tail(order))

Orders == {o \in [1..3 -> DOMAIN patterns] : {o[k] : k \in 1..3} = DOMAIN patterns}

\* C15: the trimmed text of a paragraph built from Alphabet matches one of
\* the three patterns at most, and what the loop made of the paragraph is what
\* it makes of it with the patterns tested in any other order.
C15_PatternsExclusive ==
    Len(paragraphs) > Len(TextsContext) =>
        LET text   == strip(paragraphs[Len(paragraphs)])
            before == Extract(TextsContext, Len(TextsContext))
        IN  /\ Cardinality({name \in DOMAIN patterns : re_match(name, text)}) <= 1
            /\ \A o \in Orders :
                  TestInOrder(before, text, o) =
                      [headings_dict |-> headings_dict, current_h1 |-> current_h1,
                       current_h2 |-> current_h2,
                       exc |-> IF pc = "KeyError" THEN "KeyError" ELSE ""]

\* C15 witness: the text "1.1.1 a" matched the level-3 pattern alone and was
\* stored under the two current labels.
C15_Witness ==
    /\ pc = "return" /\ Len(paragraphs) = Len(TextsContext) + 1
    /\ paragraphs[Len(paragraphs)] = <<"1", ".", "1", ".", "1", " ", "a">>
    /\ headings_dict = (<<"b">> :> (<<"b">> :> (<<"a">> :> EmptyDict)))

====
